---- MODULE Spec2Model ----
(***************************************************************************)
(* Model of the commodity market of Egregoria                              *)
(* (simulation/src/economy/market.rs): the per-commodity ledgers           *)
(* (SingleMarket), the agent-facing operations of Market and the batch     *)
(* matcher Market::make_trades.                                            *)
(*                                                                         *)
(* A BTreeMap<K, V> is a function whose DOMAIN is the set of keys present; *)
(* iteration over it is in ascending key order.  SoulID and ItemID are     *)
(* modelled as integers, ordered as their derived Ord orders them.         *)
(* Quantities and capital stay far below 2^31 in every run of the model,   *)
(* so the casts `u32 as i32` are the identity on every value that occurs.  *)
(***************************************************************************)
EXTENDS Integers, Sequences, FiniteSets, TLC

\* ------------------------------------------------------------------ bounds

\* Number of calls on the Market (operations and make_trades) in one run of Spec.
MaxCalls == 3

\* Number of calls in one run of SpecTick: the calls of a tick and its make_trades.
MaxTickCalls == 5

\* Number of calls in one run of SpecLong.
MaxLongCalls == 6

\* Number of calls in one run of SpecPair.
MaxPairCalls == 5

\* Number of company prototypes in a catalog of SpecPrices.
MaxCompanies == 2

\* Number of calls in one run of SpecRemove.
MaxRemoveCalls == 5

\* Number of calls in one run of SpecBatch.
MaxBatchCalls == 6

\* Number of calls in one run of SpecFrame.
MaxFrameCalls == 3

\* ------------------------------------------------------------------ inputs

\* The souls that call the market, in SoulID order.
Souls == {1, 2, 3}

\* The catalogs of items a market is built from (Market::new): item 1 trades
\* externally, item 2 is opted out.
Catalogs == {{1}, {2}}

\* The ItemIDs the souls pass as `kind`: a market knows those of its catalog only.
Items == {1, 2}

\* optout_exttrade of each item prototype.
ItemOptOut(kind) == kind = 2

\* ext_value of each item, the price Market::new stores in its ledger.
ItemExtValue(kind) == 3 + 2 * kind

\* The position (Vec2) of each soul's building: soul 1 is as far from soul 2 as
\* from soul 3, and souls 2 and 3 are nearer to each other than to soul 1.
Home(soul) ==
    CASE soul = 1 -> <<0, 1>>
      [] soul = 2 -> <<2, 0>>
      [] OTHER    -> <<2, 2>>

\* Positions a soul passes as `near`: its own, and for soul 3 also soul 2's.
Near(soul) == {Home(soul)} \cup (IF soul = 3 THEN {Home(2)} ELSE {})

\* Quantities passed to sell, buy and buy_until; stocks passed to sell and sell_all.
QtyArgs == {0, 1, 2}
StockArgs == {0, 1}

\* Deltas passed to produce.
DeltaArgs == {-1, 2}

\* ------------------------------------------------------------------ state

VARIABLES
    markets,     \* Market.markets: ItemID -> SingleMarket
    all_trades,  \* Market.all_trades: the batch of the last make_trades
    potential,   \* Market.potential: the scratch buffer of candidates
    panicked,    \* TRUE once a call has panicked (the thread unwinds)
    calls,       \* number of calls made so far
    op,          \* name of the last call
    args,        \* arguments of the last call
    ret,         \* the i32 the last call returned (0 when it returns nothing)
    pre,         \* markets as they were when the last call was made
    pre_trades,  \* all_trades as it was when the last call was made
    audit,       \* per trade of the last batch: the balances around its settlement
    overdrawn,   \* TRUE once a produce call has returned a negative balance
    removed      \* the souls removed and not named by a posting call since

vars ==
    <<markets, all_trades, potential, panicked, calls, op, args, ret, pre, pre_trades,
      audit, overdrawn, removed>>

\* ------------------------------------------------------------------ maps

\* BTreeMap::insert
Insert(m, k, v) == [x \in DOMAIN m \cup {k} |-> IF x = k THEN v ELSE m[x]]

\* BTreeMap::remove
Remove(m, k) == [x \in DOMAIN m \ {k} |-> m[x]]

\* BTreeMap::new / Default::default
EmptyMap == [x \in {} |-> 0]

\* BTreeMap::entry(k).or_default() for an i32 value: the map afterwards
OrDefault(m, k) == IF k \in DOMAIN m THEN m ELSE Insert(m, k, 0)

MinOf(S) == CHOOSE x \in S : \A y \in S : x <= y

\* The keys of a BTreeMap in iteration order.
RECURSIVE KeySeq(_)
KeySeq(S) == IF S = {} THEN <<>> ELSE LET x == MinOf(S) IN <<x>> \o KeySeq(S \ {x})

\* ------------------------------------------------------------------ types

\* TradeTarget
Soul(id) == [tag |-> "Soul", id |-> id]
ExternalTrade == [tag |-> "ExternalTrade", id |-> 0]

\* SingleMarket::new
NewSingleMarket(ext_value, optout_exttrade) ==
    [capital |-> EmptyMap, buy_orders |-> EmptyMap, sell_orders |-> EmptyMap,
     ext_value |-> ext_value, optout_exttrade |-> optout_exttrade]

\* SingleMarket::capital, with None as the absence of the key; Market::capital
Capital(mk, soul, kind) ==
    IF soul \in DOMAIN mk[kind].capital THEN mk[kind].capital[soul] ELSE 0

\* Vec2::distance2
Distance2(p, q) == (p[1] - q[1]) * (p[1] - q[1]) + (p[2] - q[2]) * (p[2] - q[2])

\* ------------------------------------------------------------------ make_trades

\* SoulTrade with a price paid per unit.
SoulTradePaid(kind, buyer, seller, qty) ==
    [buyer |-> Soul(buyer), seller |-> Soul(seller), qty |-> qty, kind |-> kind,
     money_delta |-> qty]

\* Trade of a candidate pairing (money_delta is Money::ZERO between souls).
SoulTrade(kind, buyer, seller, qty) ==
    [buyer |-> Soul(buyer), seller |-> Soul(seller), qty |-> qty, kind |-> kind,
     money_delta |-> 0]

\* SellerEligible asking for a capital entry only.
SellerEligibleAnyCapital(m, seller) == seller \in DOMAIN m.capital

\* A seller takes part in candidate generation when it has a capital entry and its
\* sell order's qty does not exceed it.
SellerEligible(m, seller) ==
    /\ seller \in DOMAIN m.capital
    /\ ~(m.sell_orders[seller].qty > m.capital[seller])

\* CandidateOk without the self-trade skip.
CandidateOkWithSelf(m, seller, buyer) ==
    ~(m.buy_orders[buyer].qty > m.sell_orders[seller].qty)

\* A (seller, buyer) pair becomes a candidate unless it is a self-trade or the buy
\* order asks for more than the sell order offers.
CandidateOk(m, seller, buyer) ==
    /\ ~(seller = buyer)
    /\ ~(m.buy_orders[buyer].qty > m.sell_orders[seller].qty)

\* Candidate pushing the pair as a purchase from the external market.
CandidateExternalSeller(kind, m, seller, buyer) ==
    [trade |-> [SoulTrade(kind, buyer, seller, m.buy_orders[buyer].qty)
                   EXCEPT !.seller = ExternalTrade],
     score |-> Distance2(m.sell_orders[seller].pos, m.buy_orders[buyer].pos)]

\* The (Trade, score) pushed for a candidate pair.
Candidate(kind, m, seller, buyer) ==
    [trade |-> SoulTrade(kind, buyer, seller, m.buy_orders[buyer].qty),
     score |-> Distance2(m.sell_orders[seller].pos, m.buy_orders[buyer].pos)]

\* The inner loop over buy_orders for one seller: buyers is the rest of the iteration.
RECURSIVE BuyerLoop(_, _, _, _)
BuyerLoop(kind, m, seller, buyers) ==
    IF buyers = <<>> THEN <<>>
    ELSE LET buyer == Head(buyers)
             rest  == BuyerLoop(kind, m, seller, Tail(buyers))
         IN IF CandidateOk(m, seller, buyer)
            THEN <<Candidate(kind, m, seller, buyer)>> \o rest
            ELSE rest

\* The outer loop over sell_orders: sellers is the rest of the iteration.
RECURSIVE SellerLoop(_, _, _)
SellerLoop(kind, m, sellers) ==
    IF sellers = <<>> THEN <<>>
    ELSE LET seller == Head(sellers)
             rest   == SellerLoop(kind, m, Tail(sellers))
         IN IF SellerEligible(m, seller)
            THEN BuyerLoop(kind, m, seller, KeySeq(DOMAIN m.buy_orders)) \o rest
            ELSE rest

\* Candidate generation of one commodity, in the order the candidates are pushed.
Candidates(kind, m) == SellerLoop(kind, m, KeySeq(DOMAIN m.sell_orders))

\* InsertByScore with the comparison reversed.
RECURSIVE InsertByScoreDescending(_, _)
InsertByScoreDescending(sorted, e) ==
    IF sorted = <<>> THEN <<e>>
    ELSE IF e.score > Head(sorted).score THEN <<e>> \o sorted
    ELSE <<Head(sorted)>> \o InsertByScoreDescending(Tail(sorted), e)

\* Insert e into a sequence sorted by score, behind every element whose score is
\* not greater.
RECURSIVE InsertByScore(_, _)
InsertByScore(sorted, e) ==
    IF sorted = <<>> THEN <<e>>
    ELSE IF e.score < Head(sorted).score THEN <<e>> \o sorted
    ELSE <<Head(sorted)>> \o InsertByScore(Tail(sorted), e)

RECURSIVE InsertionSort(_, _)
InsertionSort(sorted, todo) ==
    IF todo = <<>> THEN sorted
    ELSE InsertionSort(InsertByScore(sorted, Head(todo)), Tail(todo))

\* SortByScore without the sort: the candidates stay in the order they were pushed.
NoSort(pot) == pot

\* potential.sort_unstable_by_key(score).  The order of equal scores is left open
\* by sort_unstable but is a fixed function of the input; on the slices of at most
\* 20 elements that occur here the standard library sorts by insertion, which
\* keeps equal elements in their order.
SortByScore(pot) == InsertionSort(<<>>, pot)

\* The seller's capital check at settlement.
SellerHasCapital(capital, seller, qty) == ~(capital[seller] < qty)

\* SellOrderCovers without the comparison.
SellOrderCoversAlways(sell_orders, seller, qty) == TRUE

\* The sell order check at settlement.
SellOrderCovers(sell_orders, seller, qty) == ~(sell_orders[seller].qty < qty)

\* DecrementSellOrder removing the order whatever is left of it.
DecrementSellOrderTaken(sell_orders, seller, qty) == Remove(sell_orders, seller)

\* DecrementSellOrder leaving the order as it was.
DecrementSellOrderKept(sell_orders, seller, qty) == sell_orders

\* sorder.qty -= qty, and the order is removed when it reaches 0.
DecrementSellOrder(sell_orders, seller, qty) ==
    LET left == sell_orders[seller].qty - qty
    IN IF left = 0 THEN Remove(sell_orders, seller)
       ELSE [sell_orders EXCEPT ![seller].qty = left]

\* Transfer without the buyer's credit.
TransferNoCredit(capital, buyer, seller, qty) == [capital EXCEPT ![seller] = @ - qty]

\* Transfer without the seller's debit.
TransferNoDebit(capital, buyer, seller, qty) == [capital EXCEPT ![buyer] = @ + qty]

\* *cap_buyer += qty; *capital.get_mut(&seller) -= qty
Transfer(capital, buyer, seller, qty) ==
    LET credited == [capital EXCEPT ![buyer] = @ + qty]
    IN [credited EXCEPT ![seller] = @ - qty]

\* What the audit keeps of one settlement.
Audit(seller_cap, seller_order, buyer_cap, seller_cap_after, buyer_cap_after) ==
    [seller_cap |-> seller_cap, seller_order |-> seller_order, buyer_cap |-> buyer_cap,
     seller_cap_after |-> seller_cap_after, buyer_cap_after |-> buyer_cap_after]

\* Settle without the removal of the buy order.
SettleKeepBuyOrder(st, trade) ==
    LET buyer  == trade.buyer.id
        seller == trade.seller.id
        cap1   == OrDefault(st.capital, seller)
    IN IF ~SellerHasCapital(cap1, seller, trade.qty)
       THEN [st EXCEPT !.capital = cap1]
       ELSE
       LET cap2 == OrDefault(cap1, buyer)
       IN IF buyer \notin DOMAIN st.buy_orders
          THEN [st EXCEPT !.capital = cap2]
          ELSE
          LET buys == st.buy_orders
          IN IF seller \notin DOMAIN st.sell_orders
             THEN [st EXCEPT !.capital = cap2, !.buy_orders = buys]
             ELSE IF ~SellOrderCovers(st.sell_orders, seller, trade.qty)
             THEN [st EXCEPT !.capital = cap2, !.buy_orders = buys]
             ELSE
             LET cap3 == Transfer(cap2, buyer, seller, trade.qty)
             IN [st EXCEPT
                   !.capital = cap3,
                   !.buy_orders = buys,
                   !.sell_orders = DecrementSellOrder(st.sell_orders, seller, trade.qty),
                   !.trades = Append(@, trade),
                   !.audit = Append(@, Audit(cap2[seller], st.sell_orders[seller].qty,
                                             cap2[buyer], cap3[seller], cap3[buyer]))]

\* The closure of the filter_map on one candidate.  st holds the ledger's three
\* maps, the trades emitted so far and their audit.
Settle(st, trade) ==
    LET buyer  == trade.buyer.id
        seller == trade.seller.id
        cap1   == OrDefault(st.capital, seller)
    IN IF ~SellerHasCapital(cap1, seller, trade.qty)
       THEN [st EXCEPT !.capital = cap1]
       ELSE
       LET cap2 == OrDefault(cap1, buyer)
       IN IF buyer \notin DOMAIN st.buy_orders
          THEN [st EXCEPT !.capital = cap2]
          ELSE
          LET buys == Remove(st.buy_orders, buyer)
          IN IF seller \notin DOMAIN st.sell_orders
             THEN [st EXCEPT !.capital = cap2, !.buy_orders = buys]
             ELSE IF ~SellOrderCovers(st.sell_orders, seller, trade.qty)
             THEN [st EXCEPT !.capital = cap2, !.buy_orders = buys]
             ELSE
             LET cap3 == Transfer(cap2, buyer, seller, trade.qty)
             IN [st EXCEPT
                   !.capital = cap3,
                   !.buy_orders = buys,
                   !.sell_orders = DecrementSellOrder(st.sell_orders, seller, trade.qty),
                   !.trades = Append(@, trade),
                   !.audit = Append(@, Audit(cap2[seller], st.sell_orders[seller].qty,
                                             cap2[buyer], cap3[seller], cap3[buyer]))]

\* potential.drain(..).filter_map(..): every candidate in sorted order.
RECURSIVE SettleAll(_, _)
SettleAll(st, pot) ==
    IF pot = <<>> THEN st ELSE SettleAll(Settle(st, Head(pot).trade), Tail(pot))

\* TradeTarget::soul panics on ExternalTrade.
SoulPanics(target) == target.tag = "ExternalTrade"

\* capital.get_mut(&seller) is None, so that its unwrap panics.
SellerEntryMissing(capital, seller) == seller \notin DOMAIN capital

\* The closure of the filter_map panics on this candidate: it asks an
\* ExternalTrade for its soul, or it reaches the transfer and the seller has no
\* capital entry.
SettlePanics(st, trade) ==
    \/ SoulPanics(trade.buyer)
    \/ SoulPanics(trade.seller)
    \/ LET buyer  == trade.buyer.id
           seller == trade.seller.id
           cap1   == OrDefault(st.capital, seller)
           cap2   == OrDefault(cap1, buyer)
       IN  /\ SellerHasCapital(cap1, seller, trade.qty)
           /\ buyer \in DOMAIN st.buy_orders
           /\ seller \in DOMAIN st.sell_orders
           /\ SellOrderCovers(st.sell_orders, seller, trade.qty)
           /\ SellerEntryMissing(cap2, seller)

\* The closure panics on one of the candidates, those before it being settled.
RECURSIVE SettleAllPanics(_, _)
SettleAllPanics(st, pot) ==
    IF pot = <<>> THEN FALSE
    ELSE \/ SettlePanics(st, Head(pot).trade)
         \/ SettleAllPanics(Settle(st, Head(pot).trade), Tail(pot))

\* ExternalBuy with the sign of money_delta flipped.
ExternalBuyCredited(st, kind, ext_value, buyer, order) ==
    LET qty_buy == order.qty
        cap     == OrDefault(st.capital, buyer)
        cap2    == [cap EXCEPT ![buyer] = @ + qty_buy]
    IN [st EXCEPT
          !.capital = cap2,
          !.trades = Append(@, [buyer |-> Soul(buyer), seller |-> ExternalTrade,
                                qty |-> qty_buy, kind |-> kind,
                                money_delta |-> ext_value * qty_buy]),
          !.audit = Append(@, Audit(0, 0, cap[buyer], 0, cap2[buyer]))]

\* The external purchase settling one taken buy order.
ExternalBuy(st, kind, ext_value, buyer, order) ==
    LET qty_buy == order.qty
        cap     == OrDefault(st.capital, buyer)
        cap2    == [cap EXCEPT ![buyer] = @ + qty_buy]
    IN [st EXCEPT
          !.capital = cap2,
          !.trades = Append(@, [buyer |-> Soul(buyer), seller |-> ExternalTrade,
                                qty |-> qty_buy, kind |-> kind,
                                money_delta |-> -(ext_value * qty_buy)]),
          !.audit = Append(@, Audit(0, 0, cap[buyer], 0, cap2[buyer]))]

\* for (buyer, order) in btaken
RECURSIVE ExternalBuys(_, _, _, _, _)
ExternalBuys(st, kind, ext_value, btaken, buyers) ==
    IF buyers = <<>> THEN st
    ELSE ExternalBuys(ExternalBuy(st, kind, ext_value, Head(buyers), btaken[Head(buyers)]),
                      kind, ext_value, btaken, Tail(buyers))

\* CoversSurplus without the comparison.
CoversSurplusAlways(capital, seller, qty_sell) == TRUE

\* The seller's capital check of the external sale.
CoversSurplus(capital, seller, qty_sell) == ~(capital[seller] < qty_sell)

\* ExternalSell taking the whole order, stock included.
ExternalSellWholeOrder(st, kind, ext_value, seller) ==
    LET order    == st.sell_orders[seller]
        qty_sell == order.qty
    IN IF qty_sell <= 0 THEN st
       ELSE
       LET cap == OrDefault(st.capital, seller)
       IN IF ~CoversSurplus(cap, seller, qty_sell)
          THEN [st EXCEPT !.capital = cap]
          ELSE
          LET cap2 == [cap EXCEPT ![seller] = @ - qty_sell]
          IN [st EXCEPT
                !.capital = cap2,
                !.sell_orders = [@ EXCEPT ![seller].qty = @ - qty_sell],
                !.trades = Append(@, [buyer |-> ExternalTrade, seller |-> Soul(seller),
                                      qty |-> qty_sell, kind |-> kind,
                                      money_delta |-> ext_value * qty_sell]),
                !.audit = Append(@, Audit(cap[seller], order.qty, 0, cap2[seller], 0))]

\* The surplus of one sell order goes to external trading.
ExternalSell(st, kind, ext_value, seller) ==
    LET order    == st.sell_orders[seller]
        qty_sell == order.qty - order.stock
    IN IF qty_sell <= 0 THEN st
       ELSE
       LET cap == OrDefault(st.capital, seller)
       IN IF ~CoversSurplus(cap, seller, qty_sell)
          THEN [st EXCEPT !.capital = cap]
          ELSE
          LET cap2 == [cap EXCEPT ![seller] = @ - qty_sell]
          IN [st EXCEPT
                !.capital = cap2,
                !.sell_orders = [@ EXCEPT ![seller].qty = @ - qty_sell],
                !.trades = Append(@, [buyer |-> ExternalTrade, seller |-> Soul(seller),
                                      qty |-> qty_sell, kind |-> kind,
                                      money_delta |-> ext_value * qty_sell]),
                !.audit = Append(@, Audit(cap[seller], order.qty, 0, cap2[seller], 0))]

\* ExternalSells leaving the loop at the first seller whose surplus its capital does
\* not cover.
RECURSIVE ExternalSellsBreak(_, _, _, _)
ExternalSellsBreak(st, kind, ext_value, sellers) ==
    IF sellers = <<>> THEN st
    ELSE LET order == st.sell_orders[Head(sellers)]
             cap   == OrDefault(st.capital, Head(sellers))
         IN IF /\ order.qty - order.stock > 0
               /\ ~CoversSurplus(cap, Head(sellers), order.qty - order.stock)
            THEN [st EXCEPT !.capital = cap]
            ELSE ExternalSellsBreak(ExternalSell(st, kind, ext_value, Head(sellers)),
                                    kind, ext_value, Tail(sellers))

\* for (&seller, order) in sell_orders.iter_mut()
RECURSIVE ExternalSells(_, _, _, _)
ExternalSells(st, kind, ext_value, sellers) ==
    IF sellers = <<>> THEN st
    ELSE ExternalSells(ExternalSell(st, kind, ext_value, Head(sellers)),
                       kind, ext_value, Tail(sellers))

\* ExternalTrading without the test of optout_exttrade.
ExternalTradingAlways(st, kind, m) ==
    LET taken == [st EXCEPT !.buy_orders = EmptyMap]
        bought == ExternalBuys(taken, kind, m.ext_value, st.buy_orders,
                               KeySeq(DOMAIN st.buy_orders))
    IN ExternalSells(bought, kind, m.ext_value, KeySeq(DOMAIN bought.sell_orders))

\* ExternalTrading reading the buy orders without taking them out of the book.
ExternalTradingKeepOrders(st, kind, m) ==
    IF m.optout_exttrade THEN st
    ELSE LET bought == ExternalBuys(st, kind, m.ext_value, st.buy_orders,
                                    KeySeq(DOMAIN st.buy_orders))
         IN ExternalSells(bought, kind, m.ext_value, KeySeq(DOMAIN bought.sell_orders))

\* The external trading block of one commodity.
ExternalTrading(st, kind, m) ==
    IF m.optout_exttrade THEN st
    ELSE LET taken == [st EXCEPT !.buy_orders = EmptyMap]
             bought == ExternalBuys(taken, kind, m.ext_value, st.buy_orders,
                                    KeySeq(DOMAIN st.buy_orders))
         IN ExternalSells(bought, kind, m.ext_value, KeySeq(DOMAIN bought.sell_orders))

\* TradeKind without the drain: the candidates stay in the potential buffer.
TradeKindNoDrain(acc, kind) ==
    LET m    == acc.markets[kind]
        pot  == SortByScore(acc.potential \o Candidates(kind, m))
        st0  == [capital |-> m.capital, buy_orders |-> m.buy_orders,
                 sell_orders |-> m.sell_orders, trades |-> acc.trades,
                 audit |-> acc.audit]
        st1  == SettleAll(st0, pot)
        st2  == ExternalTrading(st1, kind, m)
    IN [markets |-> [acc.markets EXCEPT ![kind] =
                        [m EXCEPT !.capital = st2.capital,
                                  !.buy_orders = st2.buy_orders,
                                  !.sell_orders = st2.sell_orders]],
        trades |-> st2.trades, audit |-> st2.audit, potential |-> pot]

\* One iteration of the loop over the markets.  acc holds the markets, the trades
\* and audit so far, and the potential buffer.
TradeKind(acc, kind) ==
    LET m    == acc.markets[kind]
        pot  == SortByScore(acc.potential \o Candidates(kind, m))
        st0  == [capital |-> m.capital, buy_orders |-> m.buy_orders,
                 sell_orders |-> m.sell_orders, trades |-> acc.trades,
                 audit |-> acc.audit]
        st1  == SettleAll(st0, pot)
        st2  == ExternalTrading(st1, kind, m)
    IN [markets |-> [acc.markets EXCEPT ![kind] =
                        [m EXCEPT !.capital = st2.capital,
                                  !.buy_orders = st2.buy_orders,
                                  !.sell_orders = st2.sell_orders]],
        trades |-> st2.trades, audit |-> st2.audit, potential |-> <<>>]

RECURSIVE TradeKinds(_, _)
TradeKinds(acc, kinds) ==
    IF kinds = <<>> THEN acc ELSE TradeKinds(TradeKind(acc, Head(kinds)), Tail(kinds))

\* The iteration of one commodity panics in its settlement.
TradeKindPanics(acc, kind) ==
    LET m == acc.markets[kind]
    IN  SettleAllPanics([capital |-> m.capital, buy_orders |-> m.buy_orders,
                         sell_orders |-> m.sell_orders, trades |-> acc.trades,
                         audit |-> acc.audit],
                        SortByScore(acc.potential \o Candidates(kind, m)))

RECURSIVE TradeKindsPanics(_, _)
TradeKindsPanics(acc, kinds) ==
    IF kinds = <<>> THEN FALSE
    ELSE \/ TradeKindPanics(acc, Head(kinds))
         \/ TradeKindsPanics(TradeKind(acc, Head(kinds)), Tail(kinds))

\* ClearTrades as a truncation to the first trade.
ClearTradesTruncate(trades) == IF trades = <<>> THEN <<>> ELSE <<Head(trades)>>

\* ClearTrades without the clear.
ClearTradesKeep(trades) == trades

\* self.all_trades.clear()
ClearTrades(trades) == <<>>

\* Market::make_trades on markets mk, with the buffers as the last call left them.
MakeTradesFrom(mk, trades, pot) ==
    TradeKinds([markets |-> mk, trades |-> ClearTrades(trades), audit |-> <<>>,
                potential |-> pot],
               KeySeq(DOMAIN mk))

\* Market::make_trades on markets mk panics before it returns.
MakeTradesPanics(mk, trades, pot) ==
    TradeKindsPanics([markets |-> mk, trades |-> ClearTrades(trades), audit |-> <<>>,
                      potential |-> pot],
                     KeySeq(DOMAIN mk))

\* ------------------------------------------------------------------ calculate_prices

\* The prototypes calculate_prices reads.  ItemPrototype::iter() yields the items
\* [id], GoodsCompanyPrototype::iter() the companies
\* [production, consumption, complexity, n_workers], whose recipe lists hold
\* [id, amount]; a GoodsCompanyID is the company's index.  Money is its i64 inner
\* value, WORKER_CONSUMPTION_PER_SECOND (set outside this file) the field `worker`
\* of the input, and price_multiplier (f32) a number of quarters, so that 4 is
\* 1.0 and 5 is 1.25: every product the model forms is far below 2^24, where f32
\* holds it exactly.
RecipeItem(id, amount) == [id |-> id, amount |-> amount]

\* item_graph.entry(item.id).or_default().push(company.id) for each item of one
\* company's production
RECURSIVE PushProduction(_, _, _)
PushProduction(graph, production, company) ==
    IF production = <<>> THEN graph
    ELSE LET id == Head(production).id
             entry == IF id \in DOMAIN graph THEN graph[id] ELSE <<>>
         IN  PushProduction(Insert(graph, id, Append(entry, company)),
                            Tail(production), company)

RECURSIVE ItemGraphFrom(_, _, _)
ItemGraphFrom(graph, companies, company) ==
    IF company > Len(companies) THEN graph
    ELSE ItemGraphFrom(PushProduction(graph, companies[company].production, company),
                       companies, company + 1)

\* item_graph: per item, the companies that produce it, in iteration order
item_graph(companies) == ItemGraphFrom(EmptyMap, companies, 1)

\* (x as f32 * price_multiplier) as i64: the cast truncates toward zero
Scale(x, price_multiplier) == (x * price_multiplier) \div 4

\* company.recipe.production.iter().find_map(|x| (x.id == id).then_some(x.amount))
\*     .unwrap_or(0)
RECURSIVE ProducedQty(_, _)
ProducedQty(production, id) ==
    IF production = <<>> THEN 0
    ELSE IF Head(production).id = id THEN Head(production).amount
    ELSE ProducedQty(Tail(production), id)

\* price_workers of a company
PriceWorkers(company, worker) == company.complexity * company.n_workers * worker

\* newprice: Money / i64 divides the inner values
NewPriceScaledWhole(price_consumption, price_workers, price_multiplier, qty) ==
    Scale(price_consumption + price_workers, price_multiplier) \div qty

NewPrice(price_consumption, price_workers, price_multiplier, qty) ==
    (price_consumption + Scale(price_workers, price_multiplier)) \div qty

\* minprice.map(|x| x.min(newprice)).or(Some(newprice)); None is <<>>
MinPrice(minprice, newprice) ==
    IF minprice = <<>> THEN <<newprice>>
    ELSE IF minprice[1] <= newprice THEN minprice ELSE <<newprice>>

\* The outcomes of the recursion: the prices so far (with the value a loop has
\* accumulated), or a recursion that never returns.
Priced(prices, value) == [overflow |-> FALSE, prices |-> prices, value |-> value]
Unbounded == [overflow |-> TRUE, prices |-> EmptyMap, value |-> 0]

\* calculate_price_inner, the loop over a company's consumption and the loop over
\* the companies that produce id.  `active` holds the items whose call is on the
\* stack: the code keeps no such set, and a call for an item of `active` finds
\* prices without that item and without those above it, so it repeats the calls
\* that led to it and the recursion has no end.
RECURSIVE calculate_price_inner(_, _, _, _)
RECURSIVE PriceConsumption(_, _, _, _, _)
RECURSIVE PriceCompanies(_, _, _, _, _, _)

PriceConsumption(in, consumption, prices, price_consumption, active) ==
    IF consumption = <<>> THEN Priced(prices, price_consumption)
    ELSE LET recipe_item == Head(consumption)
             r == calculate_price_inner(in, recipe_item.id, prices, active)
         IN  IF r.overflow THEN Unbounded
             ELSE PriceConsumption(in, Tail(consumption), r.prices,
                      price_consumption + r.prices[recipe_item.id] * recipe_item.amount,
                      active)

PriceCompanies(in, id, comps, prices, minprice, active) ==
    IF comps = <<>> THEN Priced(prices, minprice)
    ELSE LET company == in.companies[Head(comps)]
             r == PriceConsumption(in, company.consumption, prices, 0, active)
             qty == ProducedQty(company.production, id)
             newprice == NewPrice(r.value, PriceWorkers(company, in.worker),
                                  in.price_multiplier, qty)
         IN  IF r.overflow THEN Unbounded
             ELSE PriceCompanies(in, id, Tail(comps), r.prices,
                                 MinPrice(minprice, newprice), active)

calculate_price_inner(in, id, prices, active) ==
    IF id \in DOMAIN prices THEN Priced(prices, 0)
    ELSE IF id \in active THEN Unbounded
    ELSE LET graph == item_graph(in.companies)
             comps == IF id \in DOMAIN graph THEN graph[id] ELSE <<>>
             r == PriceCompanies(in, id, comps, prices, <<>>, active \cup {id})
         IN  IF r.overflow THEN Unbounded
             ELSE Priced(Insert(r.prices, id,
                                IF r.value = <<>> THEN 0 ELSE r.value[1]), 0)

\* for item in ItemPrototype::iter() { calculate_price_inner(..) }
RECURSIVE PriceItems(_, _, _)
PriceItems(in, items, prices) ==
    IF items = <<>> THEN Priced(prices, 0)
    ELSE LET r == calculate_price_inner(in, Head(items), prices, {})
         IN  IF r.overflow THEN Unbounded ELSE PriceItems(in, Tail(items), r.prices)

\* calculate_prices(price_multiplier) over the prototypes of `in`
calculate_prices(in) == PriceItems(in, in.items, EmptyMap)

\* ------------------------------------------------------------------ operations

\* The arguments of a call; an operation leaves those it does not take at 0.
Args(soul, near, kind, qty, stock, delta) ==
    [soul |-> soul, near |-> near, kind |-> kind, qty |-> qty, stock |-> stock,
     delta |-> delta]

NoArgs == Args(0, <<0, 0>>, 0, 0, 0, 0)

\* The calls that name no soul, or that only read.
NoSubject == {"capital", "make_trades", "calculate_prices", "new"}

\* The removed souls after a call: remove adds its soul, and a sell, sell_all,
\* buy, buy_until, produce or register call takes its soul out.
RemovedAfter(name, a) ==
    IF name = "remove" THEN removed \cup {a.soul}
    ELSE IF name \in NoSubject THEN removed
    ELSE removed \ {a.soul}

\* What every call does to the bookkeeping of the run.
Called(name, a) ==
    /\ calls' = calls + 1
    /\ op' = name
    /\ args' = a
    /\ removed' = RemovedAfter(name, a)

\* A call other than make_trades that changes the ledgers to mk and returns v.
ReturnsValue(mk, v) ==
    /\ markets' = mk
    /\ ret' = v
    /\ pre' = markets
    /\ pre_trades' = all_trades
    /\ audit' = <<>>
    /\ UNCHANGED <<all_trades, potential, panicked>>

\* A call other than make_trades that changes the ledgers to mk and returns ().
Returns(mk) == ReturnsValue(mk, 0)

\* A call that panics: nothing it was about to write is written.
Panics ==
    /\ panicked' = TRUE
    /\ ret' = 0
    /\ pre' = markets
    /\ pre_trades' = all_trades
    /\ audit' = <<>>
    /\ UNCHANGED <<markets, all_trades, potential>>

\* Market::m(kind) finds a ledger (its unwrap does not panic).
HasLedger(kind) == kind \in DOMAIN markets

\* SellResult adding the quantity to that of an order already placed.
SellResultMerged(mk, soul, near, kind, qty, stock) ==
    [mk EXCEPT ![kind].sell_orders =
        Insert(@, soul, [pos |-> near,
                         qty |-> IF soul \in DOMAIN @ THEN @[soul].qty + qty ELSE qty,
                         stock |-> stock])]

\* The ledgers after Market::sell
SellResult(mk, soul, near, kind, qty, stock) ==
    [mk EXCEPT ![kind].sell_orders =
        Insert(@, soul, [pos |-> near, qty |-> qty, stock |-> stock])]

\* BuyResult registering the buyer: it creates the soul's capital entry.
BuyResultRegisters(mk, soul, near, kind, qty) ==
    [mk EXCEPT ![kind].buy_orders = Insert(@, soul, [pos |-> near, qty |-> qty]),
               ![kind].capital = OrDefault(@, soul)]

\* The ledgers after Market::buy
BuyResult(mk, soul, near, kind, qty) ==
    [mk EXCEPT ![kind].buy_orders = Insert(@, soul, [pos |-> near, qty |-> qty])]

\* RemoveResult leaving the capital entries in place.
RemoveResultKeepCapital(mk, soul) ==
    [k \in DOMAIN mk |->
        [mk[k] EXCEPT !.sell_orders = Remove(@, soul),
                      !.buy_orders = Remove(@, soul)]]

\* RemoveResult leaving the orders in the books.
RemoveResultKeepOrders(mk, soul) ==
    [k \in DOMAIN mk |-> [mk[k] EXCEPT !.capital = Remove(@, soul)]]

\* The ledgers after Market::remove
RemoveResult(mk, soul) ==
    [k \in DOMAIN mk |->
        [mk[k] EXCEPT !.sell_orders = Remove(@, soul),
                      !.buy_orders = Remove(@, soul),
                      !.capital = Remove(@, soul)]]

\* RegisterResult writing 0 over an entry that exists.
RegisterResultReset(mk, soul, kind) == [mk EXCEPT ![kind].capital = Insert(@, soul, 0)]

\* The ledgers after Market::register
RegisterResult(mk, soul, kind) == [mk EXCEPT ![kind].capital = OrDefault(@, soul)]

\* ProduceResult storing delta instead of adding it.
ProduceResultSet(mk, soul, kind, delta) ==
    [mk EXCEPT ![kind].capital = Insert(@, soul, delta)]

\* ProduceResult with the sign of delta flipped.
ProduceResultDebit(mk, soul, kind, delta) ==
    [mk EXCEPT ![kind].capital = [OrDefault(@, soul) EXCEPT ![soul] = @ - delta]]

\* The ledgers after Market::produce
ProduceResult(mk, soul, kind, delta) ==
    [mk EXCEPT ![kind].capital = [OrDefault(@, soul) EXCEPT ![soul] = @ + delta]]

Sell(soul, near, kind, qty, stock) ==
    /\ Called("sell", Args(soul, near, kind, qty, stock, 0))
    /\ IF HasLedger(kind)
       THEN Returns(SellResult(markets, soul, near, kind, qty, stock))
       ELSE Panics
    /\ UNCHANGED overdrawn

\* SellAll without the early return on c <= 0.
SellAllUnguarded(soul, near, kind, stock) ==
    /\ Called("sell_all", Args(soul, near, kind, 0, stock, 0))
    /\ IF ~HasLedger(kind) THEN Panics
       ELSE LET c == Capital(markets, soul, kind)
            IN Returns(SellResult(markets, soul, near, kind, c, stock))
    /\ UNCHANGED overdrawn

SellAll(soul, near, kind, stock) ==
    /\ Called("sell_all", Args(soul, near, kind, 0, stock, 0))
    /\ IF ~HasLedger(kind) THEN Panics
       ELSE LET c == Capital(markets, soul, kind)
            IN IF c <= 0 THEN Returns(markets)
               ELSE Returns(SellResult(markets, soul, near, kind, c, stock))
    /\ UNCHANGED overdrawn

RemoveSoul(soul) ==
    /\ Called("remove", Args(soul, <<0, 0>>, 0, 0, 0, 0))
    /\ Returns(RemoveResult(markets, soul))
    /\ UNCHANGED overdrawn

Buy(soul, near, kind, qty) ==
    /\ Called("buy", Args(soul, near, kind, qty, 0, 0))
    /\ IF HasLedger(kind)
       THEN Returns(BuyResult(markets, soul, near, kind, qty))
       ELSE Panics
    /\ UNCHANGED overdrawn

\* In `qty - c as u32` a negative c becomes 2^32 + c, which exceeds every qty the
\* model passes: the subtraction overflows.  With overflow checks (debug builds) it
\* panics, without them (release builds) it wraps to qty - c.
BuyUntil(soul, near, kind, qty) ==
    /\ Called("buy_until", Args(soul, near, kind, qty, 0, 0))
    /\ IF ~HasLedger(kind) THEN Panics
       ELSE LET c == Capital(markets, soul, kind)
            IN IF c >= qty THEN Returns(markets)
               ELSE IF c < 0
               THEN \/ Panics
                    \/ Returns(BuyResult(markets, soul, near, kind, qty - c))
               ELSE Returns(BuyResult(markets, soul, near, kind, qty - c))
    /\ UNCHANGED overdrawn

Register(soul, kind) ==
    /\ Called("register", Args(soul, <<0, 0>>, kind, 0, 0, 0))
    /\ IF HasLedger(kind) THEN Returns(RegisterResult(markets, soul, kind)) ELSE Panics
    /\ UNCHANGED overdrawn

\* *v += delta; *v
Produce(soul, kind, delta) ==
    /\ Called("produce", Args(soul, <<0, 0>>, kind, 0, 0, delta))
    /\ IF HasLedger(kind)
       THEN LET v == OrDefault(markets[kind].capital, soul)[soul] + delta
            IN /\ ReturnsValue(ProduceResult(markets, soul, kind, delta), v)
               /\ overdrawn' = (overdrawn \/ v < 0)
       ELSE Panics /\ UNCHANGED overdrawn

\* Market::capital as a call of its own: it reads the ledger and returns the balance.
GetCapital(soul, kind) ==
    /\ Called("capital", Args(soul, <<0, 0>>, kind, 0, 0, 0))
    /\ IF kind \in DOMAIN markets
       THEN ReturnsValue(markets, Capital(markets, soul, kind))
       ELSE Panics
    /\ UNCHANGED overdrawn

\* Market::make_trades.  When it panics the thread unwinds and no call follows, so
\* the ledgers are kept as they were when it was called.
MakeTrades ==
    /\ Called("make_trades", NoArgs)
    /\ IF MakeTradesPanics(markets, all_trades, potential)
       THEN /\ panicked' = TRUE
            /\ audit' = <<>>
            /\ UNCHANGED <<markets, all_trades, potential>>
       ELSE LET r == MakeTradesFrom(markets, all_trades, potential)
            IN /\ markets' = r.markets
               /\ all_trades' = r.trades
               /\ potential' = r.potential
               /\ audit' = r.audit
               /\ UNCHANGED panicked
    /\ ret' = 0
    /\ pre' = markets
    /\ pre_trades' = all_trades
    /\ UNCHANGED overdrawn

\* ------------------------------------------------------------------ specifications

\* Market::new over one of the catalogs
InitOf(catalogs) ==
    /\ \E catalog \in catalogs :
          markets = [k \in catalog |-> NewSingleMarket(ItemExtValue(k), ItemOptOut(k))]
    /\ all_trades = <<>>
    /\ potential = <<>>
    /\ panicked = FALSE
    /\ calls = 0
    /\ op = "new"
    /\ args = NoArgs
    /\ ret = 0
    /\ pre = markets
    /\ pre_trades = <<>>
    /\ audit = <<>>
    /\ overdrawn = FALSE
    /\ removed = {}

Init == InitOf(Catalogs)

\* The souls that call the market in Spec: the first and the last.
Callers == {s \in Souls : (\A t \in Souls : s <= t) \/ (\A t \in Souls : s >= t)}

\* The items a soul passes as `kind`: those of the market's catalog, and for the
\* first soul also the items the market has no ledger for.
Kinds(soul) == IF soul = MinOf(Souls) THEN Items ELSE DOMAIN markets

\* Spec: any sequence of at most MaxCalls calls, while the thread has not panicked.
Next ==
    /\ ~panicked
    /\ calls < MaxCalls
    /\ \/ \E soul \in Callers : \E kind \in Kinds(soul) :
             \E near \in Near(soul), qty \in QtyArgs, stock \in StockArgs :
                Sell(soul, near, kind, qty, stock)
       \/ \E soul \in Callers : \E kind \in Kinds(soul) :
             \E near \in Near(soul), stock \in StockArgs : SellAll(soul, near, kind, stock)
       \/ \E soul \in Callers : RemoveSoul(soul)
       \/ \E soul \in Callers : \E kind \in Kinds(soul) :
             \E near \in Near(soul), qty \in QtyArgs : Buy(soul, near, kind, qty)
       \/ \E soul \in Callers : \E kind \in Kinds(soul) :
             \E near \in Near(soul), qty \in QtyArgs : BuyUntil(soul, near, kind, qty)
       \/ \E soul \in Callers : \E kind \in Kinds(soul) : Register(soul, kind)
       \/ \E soul \in Callers, delta \in DeltaArgs : \E kind \in Kinds(soul) :
             Produce(soul, kind, delta)
       \/ \E soul \in Callers : \E kind \in Kinds(soul) : GetCapital(soul, kind)
       \/ MakeTrades

Spec == Init /\ [][Next]_vars

\* One tick: the souls produce and post orders from their own positions, then
\* make_trades runs (and may run again); no order is posted after it.  At most
\* max calls are made in all.
Posting(max) == ~panicked /\ calls < max /\ op # "make_trades"

\* A call of the posting phase that changes the ledgers to mk.  A tick keeps no
\* record of its posting calls: until make_trades runs, pre follows the ledgers.
Posted(mk) ==
    /\ Called("post", NoArgs)
    /\ markets' = mk
    /\ ret' = 0
    /\ pre' = mk
    /\ pre_trades' = all_trades
    /\ audit' = <<>>
    /\ UNCHANGED <<all_trades, potential, panicked>>

TickSell(max, qtys, stocks) ==
    /\ Posting(max)
    /\ \E soul \in Souls, kind \in DOMAIN markets, qty \in qtys, stock \in stocks :
          Posted(SellResult(markets, soul, Home(soul), kind, qty, stock))
    /\ UNCHANGED overdrawn

TickBuy(max, qtys) ==
    /\ Posting(max)
    /\ \E soul \in Souls, kind \in DOMAIN markets, qty \in qtys :
          Posted(BuyResult(markets, soul, Home(soul), kind, qty))
    /\ UNCHANGED overdrawn

TickProduce(max) ==
    /\ Posting(max)
    /\ \E soul \in Souls, kind \in DOMAIN markets :
          /\ Posted(ProduceResult(markets, soul, kind, 2))
          /\ overdrawn' = (overdrawn \/ Capital(markets, soul, kind) + 2 < 0)

TickMakeTrades(max) ==
    /\ ~panicked
    /\ calls < max
    /\ MakeTrades

\* SpecTick: a tick of a commodity that trades externally.
InitTick == InitOf({{1}})

NextTick ==
    \/ TickSell(MaxTickCalls, QtyArgs, StockArgs)
    \/ TickBuy(MaxTickCalls, QtyArgs)
    \/ TickProduce(MaxTickCalls)
    \/ TickMakeTrades(MaxTickCalls)

SpecTick == InitTick /\ [][NextTick]_vars

\* SpecLong: a longer tick, of either commodity, with positive quantities.
NextLong ==
    \/ TickSell(MaxLongCalls, {1, 2}, {1})
    \/ TickBuy(MaxLongCalls, {1, 2})
    \/ TickProduce(MaxLongCalls)
    \/ TickMakeTrades(MaxLongCalls)

SpecLong == Init /\ [][NextLong]_vars

\* SpecPair: a tick of a market that holds both commodities, in which the souls
\* of Callers post positive quantities and produce one or two units.
InitPair == InitOf({Items})

PairSell ==
    /\ Posting(MaxPairCalls)
    /\ \E soul \in Callers, kind \in DOMAIN markets, qty \in {1, 2} :
          Posted(SellResult(markets, soul, Home(soul), kind, qty, 1))
    /\ UNCHANGED overdrawn

PairBuy ==
    /\ Posting(MaxPairCalls)
    /\ \E soul \in Callers, kind \in DOMAIN markets, qty \in {1, 2} :
          Posted(BuyResult(markets, soul, Home(soul), kind, qty))
    /\ UNCHANGED overdrawn

PairProduce ==
    /\ Posting(MaxPairCalls)
    /\ \E soul \in Callers, kind \in DOMAIN markets, delta \in {1, 2} :
          /\ Posted(ProduceResult(markets, soul, kind, delta))
          /\ overdrawn' = (overdrawn \/ Capital(markets, soul, kind) + delta < 0)

NextPair ==
    \/ PairSell
    \/ PairBuy
    \/ PairProduce
    \/ TickMakeTrades(MaxPairCalls)

SpecPair == InitPair /\ [][NextPair]_vars

\* SpecPrices: Market::new over a catalog of prototypes.  The catalog holds three
\* items and up to MaxCompanies companies; item 1 is cereal and item 2 wheat in
\* the catalog of the test calculate_prices.
CatalogItems == <<1, 2, 3>>

\* recipe.production of a company: one item, or item 1 with item 2 as a by-product.
Productions ==
    {<<RecipeItem(1, 3)>>, <<RecipeItem(1, 2)>>, <<RecipeItem(2, 2)>>,
     <<RecipeItem(3, 2)>>, <<RecipeItem(1, 3), RecipeItem(2, 1)>>}

\* recipe.consumption of a company.
Consumptions == {<<>>, <<RecipeItem(1, 2)>>, <<RecipeItem(2, 1), RecipeItem(3, 1)>>}

\* recipe.complexity and n_workers of a company.
Labours == {<<3, 2>>, <<10, 5>>}

Companies ==
    {[production |-> p, consumption |-> c, complexity |-> l[1], n_workers |-> l[2]] :
        p \in Productions, c \in Consumptions, l \in Labours}

\* The sequences of at most n companies.
RECURSIVE CompanySeqs(_)
CompanySeqs(n) ==
    IF n = 0 THEN {<<>>}
    ELSE CompanySeqs(n - 1) \cup
         {Append(cs, c) : cs \in {x \in CompanySeqs(n - 1) : Len(x) = n - 1},
                          c \in Companies}

\* price_multiplier in quarters: 1.0 (the test) and 1.25 (Market::new).
Multipliers == {4, 5}

\* Values of WORKER_CONSUMPTION_PER_SECOND.
WorkerCosts == {1, 10}

\* The prototypes are loaded and no Market is built yet.
InitPrices ==
    /\ markets = EmptyMap
    /\ all_trades = <<>>
    /\ potential = <<>>
    /\ panicked = FALSE
    /\ calls = 0
    /\ op = "prototypes"
    /\ \E companies \in CompanySeqs(MaxCompanies), price_multiplier \in Multipliers,
          worker \in WorkerCosts :
          args = [items |-> CatalogItems, companies |-> companies,
                  price_multiplier |-> price_multiplier, worker |-> worker]
    /\ ret = 0
    /\ pre = markets
    /\ pre_trades = <<>>
    /\ audit = <<>>
    /\ overdrawn = FALSE
    /\ removed = {}

\* let prices = calculate_prices(..): ret holds the prices; a recursion without
\* end overflows the stack and the process aborts.
CalculatePrices ==
    /\ op = "prototypes"
    /\ Called("calculate_prices", args)
    /\ LET r == calculate_prices(args)
       IN  IF r.overflow THEN Panics ELSE ReturnsValue(markets, r.prices)
    /\ UNCHANGED overdrawn

\* The rest of Market::new: one SingleMarket per item, valued at its price.
NewMarket ==
    /\ op = "calculate_prices"
    /\ ~panicked
    /\ Called("new", args)
    /\ markets' = [k \in {args.items[i] : i \in DOMAIN args.items} |->
                      NewSingleMarket(ret[k], ItemOptOut(k))]
    /\ pre' = markets
    /\ UNCHANGED <<all_trades, potential, panicked, ret, pre_trades, audit, overdrawn>>

NextPrices ==
    \/ CalculatePrices
    \/ NewMarket

SpecPrices == InitPrices /\ [][NextPrices]_vars


\* SpecRemove: a tick of a market that holds both commodities, in which the
\* souls of Callers post positive quantities, produce, and are removed.  Of a
\* posting call the tick records the soul it names.
PostedBy(mk, soul) ==
    /\ Called("post", Args(soul, <<0, 0>>, 0, 0, 0, 0))
    /\ markets' = mk
    /\ ret' = 0
    /\ pre' = mk
    /\ pre_trades' = all_trades
    /\ audit' = <<>>
    /\ UNCHANGED <<all_trades, potential, panicked>>

SoulSells ==
    /\ Posting(MaxRemoveCalls)
    /\ \E soul \in Callers, kind \in DOMAIN markets, qty \in {1, 2} :
          PostedBy(SellResult(markets, soul, Home(soul), kind, qty, 1), soul)
    /\ UNCHANGED overdrawn

SoulBuys ==
    /\ Posting(MaxRemoveCalls)
    /\ \E soul \in Callers, kind \in DOMAIN markets, qty \in {1, 2} :
          PostedBy(BuyResult(markets, soul, Home(soul), kind, qty), soul)
    /\ UNCHANGED overdrawn

SoulProduces ==
    /\ Posting(MaxRemoveCalls)
    /\ \E soul \in Callers, kind \in DOMAIN markets :
          PostedBy(ProduceResult(markets, soul, kind, 2), soul)
    /\ UNCHANGED overdrawn

SoulRemoved ==
    /\ Posting(MaxRemoveCalls)
    /\ \E soul \in Callers : RemoveSoul(soul)

NextRemove ==
    \/ SoulSells
    \/ SoulBuys
    \/ SoulProduces
    \/ SoulRemoved
    \/ TickMakeTrades(MaxRemoveCalls)

SpecRemove == InitPair /\ [][NextRemove]_vars

\* SpecBatch: a tick of a market that holds both commodities, in which the souls
\* of Callers produce two units and offer them, and every soul asks for one unit.
BatchSell ==
    /\ Posting(MaxBatchCalls)
    /\ \E soul \in Callers, kind \in DOMAIN markets :
          Posted(SellResult(markets, soul, Home(soul), kind, 2, 1))
    /\ UNCHANGED overdrawn

BatchBuy ==
    /\ Posting(MaxBatchCalls)
    /\ \E soul \in Souls, kind \in DOMAIN markets :
          Posted(BuyResult(markets, soul, Home(soul), kind, 1))
    /\ UNCHANGED overdrawn

BatchProduce ==
    /\ Posting(MaxBatchCalls)
    /\ \E soul \in Callers, kind \in DOMAIN markets :
          Posted(ProduceResult(markets, soul, kind, 2))
    /\ UNCHANGED overdrawn

NextBatch ==
    \/ BatchSell
    \/ BatchBuy
    \/ BatchProduce
    \/ TickMakeTrades(MaxBatchCalls)

SpecBatch == InitPair /\ [][NextBatch]_vars

\* SpecFrame: the posting calls and produce, recorded call by call, on a market
\* that holds both commodities.
NextFrame ==
    /\ ~panicked
    /\ calls < MaxFrameCalls
    /\ \/ \E soul \in Callers, kind \in DOMAIN markets, qty \in {1, 2} :
             Sell(soul, Home(soul), kind, qty, 1)
       \/ \E soul \in Callers, kind \in DOMAIN markets :
             SellAll(soul, Home(soul), kind, 1)
       \/ \E soul \in Callers, kind \in DOMAIN markets, qty \in {1, 2} :
             Buy(soul, Home(soul), kind, qty)
       \/ \E soul \in Callers, kind \in DOMAIN markets, qty \in {1, 2} :
             BuyUntil(soul, Home(soul), kind, qty)
       \/ \E soul \in Callers, kind \in DOMAIN markets, delta \in DeltaArgs :
             Produce(soul, kind, delta)

SpecFrame == InitPair /\ [][NextFrame]_vars

\* ------------------------------------------------------------------ claims

\* The state is the one make_trades returned in: all_trades is its batch, pre the
\* ledgers it was invoked on, markets the ledgers it left.
AfterTrades == op = "make_trades"

IsSoulSoul(t) == t.buyer.tag = "Soul" /\ t.seller.tag = "Soul"

\* The trades of the batch that name soul b as the buyer of commodity kind.
BuysOf(kind, b) ==
    {i \in DOMAIN all_trades : all_trades[i].kind = kind /\ all_trades[i].buyer = Soul(b)}

\* C1: in a commodity that is not opted out of external trade, every buy order
\* present when make_trades is invoked is settled by that call: the batch holds
\* exactly one trade of that commodity naming the order's soul as buyer, and its
\* qty is the order's qty; no buy order leaves the book without such a trade.
C1_EveryBuyOrderSettled ==
    AfterTrades =>
        \A kind \in DOMAIN pre :
            ~pre[kind].optout_exttrade =>
                \A b \in DOMAIN pre[kind].buy_orders :
                    /\ Cardinality(BuysOf(kind, b)) = 1
                    /\ \A i \in BuysOf(kind, b) :
                          all_trades[i].qty = pre[kind].buy_orders[b].qty

\* C2: in an opted-out commodity, every buy order present when make_trades is
\* invoked that is not the buyer of a Soul-Soul trade of the batch is still in the
\* book afterwards, with the same qty and pos.
C2_SkippedBuyOrderStays ==
    AfterTrades =>
        \A kind \in DOMAIN pre :
            pre[kind].optout_exttrade =>
                \A b \in DOMAIN pre[kind].buy_orders :
                    BuysOf(kind, b) = {} =>
                        /\ b \in DOMAIN markets[kind].buy_orders
                        /\ markets[kind].buy_orders[b] = pre[kind].buy_orders[b]

\* C3: each Soul-Soul trade of quantity qty raises the buyer's capital in the
\* commodity by exactly qty and lowers the seller's by exactly qty, so the two
\* deltas sum to zero.
C3_GoodsConserved ==
    AfterTrades =>
        \A i \in DOMAIN all_trades :
            IsSoulSoul(all_trades[i]) =>
                /\ audit[i].buyer_cap_after = audit[i].buyer_cap + all_trades[i].qty
                /\ audit[i].seller_cap_after = audit[i].seller_cap - all_trades[i].qty
                /\ (audit[i].buyer_cap_after - audit[i].buyer_cap)
                      + (audit[i].seller_cap_after - audit[i].seller_cap) = 0

\* C3 witness: make_trades settled a Soul-Soul trade of a positive quantity.
C3_Witness ==
    /\ AfterTrades
    /\ \E i \in DOMAIN all_trades : IsSoulSoul(all_trades[i]) /\ all_trades[i].qty > 0

\* C4: no trade of a batch has its buyer equal to its seller.
C4_NoSelfTrade ==
    \A i \in DOMAIN all_trades : all_trades[i].buyer # all_trades[i].seller

\* C4 witness: make_trades ran, and emitted trades, on a ledger in which a soul has
\* a buy order and a sell order that pass every filter but the self-trade skip.
C4_Witness ==
    /\ AfterTrades
    /\ all_trades # <<>>
    /\ \E kind \in DOMAIN pre :
          \E s \in DOMAIN pre[kind].buy_orders \cap DOMAIN pre[kind].sell_orders :
              /\ SellerEligible(pre[kind], s)
              /\ pre[kind].buy_orders[s].qty <= pre[kind].sell_orders[s].qty
              /\ pre[kind].buy_orders[s].qty > 0

\* C5: every trade whose seller is a soul has a qty of at most the seller's capital
\* and at most the remaining qty of the seller's sell order, both as they are just
\* before the trade is applied.
C5_CapacityRespected ==
    AfterTrades =>
        \A i \in DOMAIN all_trades :
            all_trades[i].seller.tag = "Soul" =>
                /\ all_trades[i].qty <= audit[i].seller_cap
                /\ all_trades[i].qty <= audit[i].seller_order

\* C5 witness: one batch holds a Soul-Soul trade and a sale to ExternalTrade.
C5_Witness ==
    /\ AfterTrades
    /\ \E i \in DOMAIN all_trades : IsSoulSoul(all_trades[i])
    /\ \E i \in DOMAIN all_trades :
          all_trades[i].buyer = ExternalTrade /\ all_trades[i].qty > 0

\* C6: a capital that is >= 0 when make_trades is invoked is >= 0 when it returns.
C6_TradesKeepCapitalNonNegative ==
    AfterTrades =>
        \A kind \in DOMAIN pre :
            \A soul \in Souls :
                Capital(pre, soul, kind) >= 0 => Capital(markets, soul, kind) >= 0

\* C6 witness: make_trades left one seller with no capital at all after a Soul-Soul
\* trade, and skipped the external sale of a surplus that another seller's capital
\* did not cover.
C6_Witness ==
    /\ AfterTrades
    /\ \E kind \in DOMAIN pre :
          /\ \E i \in DOMAIN all_trades :
                /\ IsSoulSoul(all_trades[i])
                /\ all_trades[i].qty > 0
                /\ Capital(markets, all_trades[i].seller.id, kind) = 0
          /\ \E s \in DOMAIN markets[kind].sell_orders :
                markets[kind].sell_orders[s].qty - markets[kind].sell_orders[s].stock
                   > Capital(markets, s, kind)

\* Every capital entry of every ledger is >= 0.
CapitalNonNegative ==
    \A kind \in DOMAIN markets :
        \A soul \in DOMAIN markets[kind].capital : markets[kind].capital[soul] >= 0

CapableSellers(m, b) ==
    {s \in DOMAIN m.sell_orders \ {b} :
        /\ s \in DOMAIN m.capital
        /\ m.capital[s] >= m.sell_orders[s].qty
        /\ m.sell_orders[s].qty >= m.buy_orders[b].qty}

OrderDistance(m, s, b) == Distance2(m.sell_orders[s].pos, m.buy_orders[b].pos)

\* The case of C9: b holds the only buy order of the commodity, and several capable
\* sellers stand at pairwise different distances from it.
OneBuyerSeveralSellers(m, b) ==
    /\ DOMAIN m.buy_orders = {b}
    /\ Cardinality(CapableSellers(m, b)) >= 2
    /\ \A s1, s2 \in CapableSellers(m, b) :
          s1 # s2 => OrderDistance(m, s1, b) # OrderDistance(m, s2, b)

NearestSeller(m, b) ==
    CHOOSE s \in CapableSellers(m, b) :
        \A t \in CapableSellers(m, b) : OrderDistance(m, s, b) <= OrderDistance(m, t, b)

\* C9: when one buy order of quantity q exists for a commodity and several other
\* souls have sell orders with capital >= sell qty >= q at pairwise different
\* squared distances from it, make_trades emits exactly one trade for that buyer,
\* of qty q, whose seller is the soul with the nearest sell order.
C9_NearestSellerWins ==
    AfterTrades =>
        \A kind \in DOMAIN pre :
            \A b \in DOMAIN pre[kind].buy_orders :
                OneBuyerSeveralSellers(pre[kind], b) =>
                    /\ Cardinality(BuysOf(kind, b)) = 1
                    /\ \A i \in BuysOf(kind, b) :
                          /\ all_trades[i].qty = pre[kind].buy_orders[b].qty
                          /\ all_trades[i].seller = Soul(NearestSeller(pre[kind], b))

\* C9 witness: the case of C9 with the nearest seller not the first in SoulID order.
C9_Witness ==
    /\ AfterTrades
    /\ \E kind \in DOMAIN pre :
          \E b \in DOMAIN pre[kind].buy_orders :
              /\ OneBuyerSeveralSellers(pre[kind], b)
              /\ NearestSeller(pre[kind], b) # MinOf(CapableSellers(pre[kind], b))

\* C10: every trade of every batch has qty > 0.
C10_PositiveQty == \A i \in DOMAIN all_trades : all_trades[i].qty > 0

\* The last call was name and it returned (a call that panics ends the run).
Returned(name) == op = name /\ ~panicked

\* C11: buy(soul, pos, kind, 0) and sell(soul, pos, kind, 0, stock) leave the ledger
\* unchanged: no order is created, replaced or altered, and no capital changes.
C11_ZeroQuantityIsNoOp ==
    (op \in {"buy", "sell"} /\ args.qty = 0) => markets = pre

\* The operations that take a commodity.
KindCalls == {"sell", "sell_all", "buy", "buy_until", "produce", "register", "capital"}

\* C12: a call of sell, buy, buy_until, sell_all, produce, register or capital with
\* a commodity that has no ledger returns normally and leaves every ledger
\* unchanged.
C12_UnknownCommodityAccepted ==
    (op \in KindCalls /\ args.kind \notin DOMAIN pre) => (~panicked /\ markets = pre)

\* C13: every trade of a batch whose buyer and seller are both souls has
\* money_delta = 0.
C13_NoMoneyBetweenSouls ==
    \A i \in DOMAIN all_trades :
        IsSoulSoul(all_trades[i]) => all_trades[i].money_delta = 0

\* C13 witness: a batch with a trade of positive qty between two souls next to a
\* trade with ExternalTrade in which money moves.
C13_Witness ==
    /\ AfterTrades
    /\ \E i \in DOMAIN all_trades : IsSoulSoul(all_trades[i]) /\ all_trades[i].qty > 0
    /\ \E j \in DOMAIN all_trades :
          ~IsSoulSoul(all_trades[j]) /\ all_trades[j].money_delta # 0

\* Map m is map old without key k: every other key is there with its old value.
SameExcept(m, old, k) ==
    /\ DOMAIN m \ {k} = DOMAIN old \ {k}
    /\ \A x \in DOMAIN old \ {k} : m[x] = old[x]

OrderReplaced(book, old, soul, order) ==
    /\ soul \in DOMAIN book
    /\ book[soul] = order
    /\ SameExcept(book, old, soul)

\* C15: a soul has at most one buy order and one sell order per commodity (the
\* books are maps keyed by soul), and a buy or sell call replaces the soul's
\* earlier order of that commodity by the new pos, qty (and stock), without
\* adding the quantities and without touching any other soul's order.
C15_OrderOverwrites ==
    /\ Returned("sell") =>
          OrderReplaced(markets[args.kind].sell_orders, pre[args.kind].sell_orders,
                        args.soul,
                        [pos |-> args.near, qty |-> args.qty, stock |-> args.stock])
    /\ Returned("buy") =>
          OrderReplaced(markets[args.kind].buy_orders, pre[args.kind].buy_orders,
                        args.soul, [pos |-> args.near, qty |-> args.qty])

\* C15 witness: a sell call of a soul whose earlier sell order of the commodity had
\* another pos, another positive qty and another stock.
C15_Witness ==
    /\ Returned("sell")
    /\ args.qty > 0
    /\ args.soul \in DOMAIN pre[args.kind].sell_orders
    /\ LET old == pre[args.kind].sell_orders[args.soul]
       IN old.qty > 0 /\ old.qty # args.qty /\ old.pos # args.near
          /\ old.stock # args.stock

C17_SellAllSellsCapital ==
    Returned("sell_all") =>
        LET c == Capital(pre, args.soul, args.kind)
        IN IF c > 0
           THEN OrderReplaced(markets[args.kind].sell_orders,
                              pre[args.kind].sell_orders, args.soul,
                              [pos |-> args.near, qty |-> c, stock |-> args.stock])
           ELSE markets = pre

\* C17 witness: sell_all of a soul with positive capital whose earlier sell order
\* had another qty.
C17_Witness ==
    /\ Returned("sell_all")
    /\ Capital(pre, args.soul, args.kind) > 0
    /\ args.soul \in DOMAIN pre[args.kind].sell_orders
    /\ pre[args.kind].sell_orders[args.soul].qty # Capital(pre, args.soul, args.kind)

\* C18: produce(soul, kind, delta) adds delta to the soul's capital, a missing
\* entry counting as 0, and returns the new balance, which is what
\* capital(soul, kind) returns immediately afterwards.
C18_ProduceAddsDelta ==
    Returned("produce") =>
        /\ args.soul \in DOMAIN markets[args.kind].capital
        /\ markets[args.kind].capital[args.soul]
              = Capital(pre, args.soul, args.kind) + args.delta
        /\ ret = Capital(markets, args.soul, args.kind)

\* C18 witness: a produce call with a negative delta for a soul without a capital
\* entry.
C18_Witness ==
    /\ Returned("produce")
    /\ args.delta < 0
    /\ args.soul \notin DOMAIN pre[args.kind].capital
    /\ ret = args.delta

\* C19: register(soul, kind) creates a capital entry of value 0 when the soul has
\* none and leaves an existing value unchanged, so a second register changes
\* nothing; it creates, removes or changes no buy or sell order.
C19_RegisterEnsuresEntry ==
    Returned("register") =>
        /\ args.soul \in DOMAIN markets[args.kind].capital
        /\ markets[args.kind].capital[args.soul] = Capital(pre, args.soul, args.kind)
        /\ args.soul \in DOMAIN pre[args.kind].capital => markets = pre
        /\ \A kind \in DOMAIN pre :
              /\ markets[kind].buy_orders = pre[kind].buy_orders
              /\ markets[kind].sell_orders = pre[kind].sell_orders
        /\ RegisterResult(markets, args.soul, args.kind) = markets

\* C19 witness: register of a soul that already holds capital other than 0.
C19_Witness ==
    /\ Returned("register")
    /\ args.soul \in DOMAIN pre[args.kind].capital
    /\ pre[args.kind].capital[args.soul] # 0

\* The trades of the batch of commodity kind.
TradesOf(kind) == {i \in DOMAIN all_trades : all_trades[i].kind = kind}

\* C20: for a commodity with optout_exttrade set, no trade of the batch has
\* ExternalTrade as buyer or seller, every trade of the commodity has
\* money_delta = 0, and a sell order that is the seller of no trade keeps its qty.
C20_OptOutRespected ==
    AfterTrades =>
        \A kind \in DOMAIN pre :
            pre[kind].optout_exttrade =>
                /\ \A i \in TradesOf(kind) :
                      /\ all_trades[i].buyer # ExternalTrade
                      /\ all_trades[i].seller # ExternalTrade
                      /\ all_trades[i].money_delta = 0
                /\ \A s \in DOMAIN pre[kind].sell_orders :
                      (\A i \in TradesOf(kind) : all_trades[i].seller # Soul(s)) =>
                          /\ s \in DOMAIN markets[kind].sell_orders
                          /\ markets[kind].sell_orders[s].qty
                                = pre[kind].sell_orders[s].qty

\* C20 witness: make_trades of an opted-out commodity emits a trade and leaves
\* unmatched a sell order whose surplus over its stock the seller's capital covers.
C20_Witness ==
    /\ AfterTrades
    /\ \E kind \in DOMAIN pre :
          /\ pre[kind].optout_exttrade
          /\ TradesOf(kind) # {}
          /\ \E s \in DOMAIN pre[kind].sell_orders :
                /\ \A i \in TradesOf(kind) : all_trades[i].seller # Soul(s)
                /\ pre[kind].sell_orders[s].qty > pre[kind].sell_orders[s].stock
                /\ Capital(pre, s, kind) >= pre[kind].sell_orders[s].qty

\* The trades of commodity kind in a batch, in the order of the batch.
KindTrades(trades, kind) == SelectSeq(trades, LAMBDA t : t.kind = kind)

\* make_trades on a market that holds the ledger of commodity kind alone.
Alone(kind) == MakeTradesFrom([k \in {kind} |-> pre[kind]], <<>>, <<>>)

\* C21: the trades make_trades emits for a commodity, and the ledger it leaves for
\* it, are those it emits and leaves when the market holds that commodity's ledger
\* alone: they depend on nothing in another commodity's ledger.
C21_NoCrossCommodity ==
    AfterTrades =>
        \A kind \in DOMAIN pre :
            /\ KindTrades(all_trades, kind) = Alone(kind).trades
            /\ markets[kind] = Alone(kind).markets[kind]

\* C21 witness: one batch holds trades of two commodities.
C21_Witness ==
    /\ AfterTrades
    /\ \E i, j \in DOMAIN all_trades : all_trades[i].kind # all_trades[j].kind

\* C22: in one batch a soul is the buyer of at most one trade per commodity, and
\* that trade's qty is the full qty of the soul's buy order at the start of the
\* call: a buy order is never filled in part nor from two sellers.
C22_OneMatchPerBuyer ==
    AfterTrades =>
        \A kind \in DOMAIN pre :
            \A b \in Souls :
                /\ Cardinality(BuysOf(kind, b)) <= 1
                /\ \A i \in BuysOf(kind, b) :
                      /\ b \in DOMAIN pre[kind].buy_orders
                      /\ all_trades[i].qty = pre[kind].buy_orders[b].qty

\* C22 witness: a buy order of two units that two sellers could each fill was
\* settled.
C22_Witness ==
    /\ AfterTrades
    /\ \E kind \in DOMAIN pre :
          \E b \in DOMAIN pre[kind].buy_orders :
              /\ pre[kind].buy_orders[b].qty = 2
              /\ Cardinality(CapableSellers(pre[kind], b)) >= 2
              /\ BuysOf(kind, b) # {}

\* Trade i of the batch was settled by the last call: the audit of that call holds
\* the balances it moved.
SettledNow(i) ==
    /\ i \in DOMAIN audit
    /\ all_trades[i].seller.tag = "Soul" =>
          audit[i].seller_cap - audit[i].seller_cap_after = all_trades[i].qty
    /\ all_trades[i].buyer.tag = "Soul" =>
          audit[i].buyer_cap_after - audit[i].buyer_cap = all_trades[i].qty

\* C23: the batch a make_trades call returns holds exactly the trades settled
\* during that call, none of an earlier call, and a call that settles nothing
\* (it leaves the ledgers as they were) returns an empty batch.
C23_BatchPerInvocation ==
    AfterTrades =>
        /\ Len(all_trades) = Len(audit)
        /\ \A i \in DOMAIN all_trades : SettledNow(i)
        /\ markets = pre => all_trades = <<>>

\* C23 witness: a make_trades call that settles nothing, made while the buffer
\* held the trades of the call before it, returned an empty batch.
C23_Witness ==
    /\ AfterTrades
    /\ pre_trades # <<>>
    /\ markets = pre
    /\ all_trades = <<>>

\* C24: after make_trades returns, no book holds a sell order whose qty the call
\* brought to 0, by Soul-Soul trades or by the external sale of its surplus.
C24_ConsumedOrdersRemoved ==
    AfterTrades =>
        \A kind \in DOMAIN pre :
            \A s \in DOMAIN markets[kind].sell_orders :
                ~(/\ s \in DOMAIN pre[kind].sell_orders
                  /\ pre[kind].sell_orders[s].qty > 0
                  /\ markets[kind].sell_orders[s].qty = 0)

\* The quantity of commodity kind that soul s sold to souls in the first n trades
\* of the batch.
RECURSIVE SoldUpTo(_, _, _)
SoldUpTo(kind, s, n) ==
    IF n = 0 THEN 0
    ELSE SoldUpTo(kind, s, n - 1)
         + (IF /\ all_trades[n].kind = kind
               /\ IsSoulSoul(all_trades[n])
               /\ all_trades[n].seller = Soul(s)
            THEN all_trades[n].qty ELSE 0)

SoldBy(kind, s) == SoldUpTo(kind, s, Len(all_trades))

\* C25: in an opted-out commodity, a sell order of quantity Q whose soul sold
\* q < Q in the Soul-Soul trades of one make_trades call is in the book afterwards
\* with qty Q - q and its pos and stock; a sell order that took part in no trade is
\* unchanged.
C25_PartialFillsPersist ==
    AfterTrades =>
        \A kind \in DOMAIN pre :
            pre[kind].optout_exttrade =>
                \A s \in DOMAIN pre[kind].sell_orders :
                    LET order == pre[kind].sell_orders[s]
                        q     == SoldBy(kind, s)
                    IN /\ q < order.qty =>
                             /\ s \in DOMAIN markets[kind].sell_orders
                             /\ markets[kind].sell_orders[s]
                                   = [order EXCEPT !.qty = order.qty - q]
                       /\ (\A i \in TradesOf(kind) : all_trades[i].seller # Soul(s)) =>
                             /\ s \in DOMAIN markets[kind].sell_orders
                             /\ markets[kind].sell_orders[s] = order

\* C25 witness: in an opted-out commodity a sell order of two units sold one.
C25_Witness ==
    /\ AfterTrades
    /\ \E kind \in DOMAIN pre :
          /\ pre[kind].optout_exttrade
          /\ \E s \in DOMAIN pre[kind].sell_orders :
                pre[kind].sell_orders[s].qty = 2 /\ SoldBy(kind, s) = 1

\* The ledger of commodity kind as make_trades found it, and as internal matching
\* left it: the state the external trading block starts from.
Ledger(kind) ==
    [capital |-> pre[kind].capital, buy_orders |-> pre[kind].buy_orders,
     sell_orders |-> pre[kind].sell_orders, trades |-> <<>>, audit |-> <<>>]

AfterMatching(kind) == SettleAll(Ledger(kind), SortByScore(Candidates(kind, pre[kind])))

\* The ledger of commodity kind once the external purchases are done: the state
\* the loop over the sell orders starts from.
AfterExternalBuys(kind) ==
    LET st == AfterMatching(kind)
    IN ExternalBuys([st EXCEPT !.buy_orders = EmptyMap], kind, pre[kind].ext_value,
                    st.buy_orders, KeySeq(DOMAIN st.buy_orders))

\* The balance of soul in a capital map, 0 without an entry.
Balance(capital, soul) == IF soul \in DOMAIN capital THEN capital[soul] ELSE 0

\* The trades of the batch in which soul b buys kind from, or soul s sells kind to,
\* ExternalTrade.
ExternalBuysOf(kind, b) ==
    {i \in TradesOf(kind) :
        all_trades[i].buyer = Soul(b) /\ all_trades[i].seller = ExternalTrade}

ExternalSalesOf(kind, s) ==
    {i \in TradesOf(kind) :
        all_trades[i].seller = Soul(s) /\ all_trades[i].buyer = ExternalTrade}

\* Every buy order of kind still open after internal matching has its one external
\* trade, and the buy book is empty.
ExternalBuysSettled(kind) ==
    /\ \A b \in DOMAIN AfterMatching(kind).buy_orders :
          LET q == AfterMatching(kind).buy_orders[b].qty
          IN /\ Cardinality(ExternalBuysOf(kind, b)) = 1
             /\ \A i \in ExternalBuysOf(kind, b) :
                   /\ all_trades[i].qty = q
                   /\ all_trades[i].money_delta = -(pre[kind].ext_value * q)
                   /\ audit[i].buyer_cap_after = audit[i].buyer_cap + q
    /\ DOMAIN markets[kind].buy_orders = {}

\* C26: in a commodity that is not opted out, each buy order of quantity q still
\* open after internal matching yields one trade {buyer = Soul(b), seller =
\* ExternalTrade, qty = q, money_delta = -(ext_value * q)}, the buyer's capital
\* rises by exactly q, and the buy book is empty when make_trades returns.
C26_ExternalBuySettlement ==
    AfterTrades =>
        \A kind \in DOMAIN pre : ~pre[kind].optout_exttrade => ExternalBuysSettled(kind)

\* C26 witness: one buy order was matched with a soul, another of positive
\* quantity stayed open and was settled externally.
C26_Witness ==
    /\ AfterTrades
    /\ \E kind \in DOMAIN pre :
          /\ ~pre[kind].optout_exttrade
          /\ \E i \in TradesOf(kind) : IsSoulSoul(all_trades[i]) /\ all_trades[i].qty > 0
          /\ \E b \in DOMAIN AfterMatching(kind).buy_orders :
                AfterMatching(kind).buy_orders[b].qty > 0

\* Sell order s of kind, as internal matching left it, is sold down to its stock
\* when its surplus is covered by the seller's capital, and left alone when it has
\* no surplus.
SurplusSold(kind, s) ==
    LET order == AfterMatching(kind).sell_orders[s]
        cap   == Balance(AfterMatching(kind).capital, s)
        sur   == order.qty - order.stock
    IN /\ (sur > 0 /\ cap >= sur) =>
             /\ Cardinality(ExternalSalesOf(kind, s)) = 1
             /\ \A i \in ExternalSalesOf(kind, s) :
                   /\ all_trades[i].qty = sur
                   /\ all_trades[i].money_delta = pre[kind].ext_value * sur
                   /\ audit[i].seller_cap - audit[i].seller_cap_after = sur
             /\ s \in DOMAIN markets[kind].sell_orders
             /\ markets[kind].sell_orders[s] = [order EXCEPT !.qty = order.stock]
       /\ sur <= 0 =>
             /\ ExternalSalesOf(kind, s) = {}
             /\ s \in DOMAIN markets[kind].sell_orders
             /\ markets[kind].sell_orders[s] = order

\* C27: in a commodity that is not opted out, a sell order whose qty r after
\* internal matching exceeds its stock s, with seller capital >= r - s, yields one
\* trade {buyer = ExternalTrade, seller = Soul, qty = r - s, money_delta =
\* ext_value * (r - s)}, the seller's capital falls by r - s and the order's qty
\* becomes s; a sell order with r <= s yields no external trade and is unchanged.
C27_SurplusSoldDownToStock ==
    AfterTrades =>
        \A kind \in DOMAIN pre :
            ~pre[kind].optout_exttrade =>
                \A s \in DOMAIN AfterMatching(kind).sell_orders : SurplusSold(kind, s)

\* C27 witness: a seller sold to a soul and then sold what was left above its
\* stock to ExternalTrade.
C27_Witness ==
    /\ AfterTrades
    /\ \E kind \in DOMAIN pre :
          /\ ~pre[kind].optout_exttrade
          /\ \E s \in DOMAIN AfterMatching(kind).sell_orders :
                /\ ExternalSalesOf(kind, s) # {}
                /\ \E i \in TradesOf(kind) :
                      /\ IsSoulSoul(all_trades[i])
                      /\ all_trades[i].seller = Soul(s)
                      /\ all_trades[i].qty > 0

\* The surplus of sell order s of kind exceeds the seller's capital when the loop
\* over the sell orders reaches it.
SurplusUncovered(kind, s) ==
    LET order == AfterExternalBuys(kind).sell_orders[s]
    IN order.qty - order.stock > Balance(AfterExternalBuys(kind).capital, s)

\* C28: when the surplus of a sell order exceeds the seller's capital during the
\* external fallback, no external trade is emitted for that seller and its capital
\* and sell order are left unchanged, while every other buy and sell order of the
\* commodity is still settled and the later commodities are still processed.
C28_UncoveredSurplusSkipped ==
    AfterTrades =>
        \A kind \in DOMAIN pre :
            ~pre[kind].optout_exttrade =>
                \A s \in DOMAIN AfterExternalBuys(kind).sell_orders :
                    SurplusUncovered(kind, s) =>
                        /\ ExternalSalesOf(kind, s) = {}
                        /\ s \in DOMAIN markets[kind].sell_orders
                        /\ markets[kind].sell_orders[s]
                              = AfterExternalBuys(kind).sell_orders[s]
                        /\ Capital(markets, s, kind)
                              = Balance(AfterExternalBuys(kind).capital, s)
                        /\ ExternalBuysSettled(kind)
                        /\ \A t \in DOMAIN AfterMatching(kind).sell_orders \ {s} :
                              SurplusSold(kind, t)
                        /\ \A later \in DOMAIN pre :
                              later > kind =>
                                  /\ KindTrades(all_trades, later) = Alone(later).trades
                                  /\ markets[later] = Alone(later).markets[later]

\* C28 witness: the surplus of a sell order was skipped for want of capital, and
\* the same call settled a trade of a later commodity.
C28_Witness ==
    /\ AfterTrades
    /\ \E kind \in DOMAIN pre :
          /\ ~pre[kind].optout_exttrade
          /\ \E s \in DOMAIN AfterExternalBuys(kind).sell_orders :
                SurplusUncovered(kind, s)
          /\ \E i \in DOMAIN all_trades :
                all_trades[i].kind > kind /\ all_trades[i].qty > 0

\* C29: make_trades emits a Soul-Soul trade between seller s and buyer b only if,
\* at the start of the call, s has a capital entry with capital >= the whole qty of
\* its sell order and b's buy qty <= that sell qty; a seller whose capital is below
\* its sell order's qty is matched with no buyer.
C29_CandidateEligibility ==
    AfterTrades =>
        \A i \in DOMAIN all_trades :
            IsSoulSoul(all_trades[i]) =>
                LET m == pre[all_trades[i].kind]
                    s == all_trades[i].seller.id
                    b == all_trades[i].buyer.id
                IN /\ s \in DOMAIN m.sell_orders
                   /\ s \in DOMAIN m.capital
                   /\ m.capital[s] >= m.sell_orders[s].qty
                   /\ b \in DOMAIN m.buy_orders
                   /\ m.buy_orders[b].qty <= m.sell_orders[s].qty

\* C29 witness: a seller held capital below the qty of its sell order while another
\* soul asked for no more than that capital, and the seller sold to no soul.
C29_Witness ==
    /\ AfterTrades
    /\ \E kind \in DOMAIN pre :
          \E s \in DOMAIN pre[kind].sell_orders :
              /\ Capital(pre, s, kind) > 0
              /\ Capital(pre, s, kind) < pre[kind].sell_orders[s].qty
              /\ \E b \in DOMAIN pre[kind].buy_orders \ {s} :
                    /\ pre[kind].buy_orders[b].qty > 0
                    /\ pre[kind].buy_orders[b].qty <= Capital(pre, s, kind)
              /\ \A i \in TradesOf(kind) :
                    IsSoulSoul(all_trades[i]) => all_trades[i].seller # Soul(s)

\* The companies of `in` that produce item id.
Producers(in, id) ==
    {c \in DOMAIN in.companies :
        \E i \in DOMAIN in.companies[c].production :
            in.companies[c].production[i].id = id}

\* The items the producers of item id consume.
Consumes(in, id) ==
    UNION {{in.companies[c].consumption[i].id :
                i \in DOMAIN in.companies[c].consumption} : c \in Producers(in, id)}

\* The items reached from those of S in at most n steps of Consumes.
RECURSIVE ReachIn(_, _, _)
ReachIn(in, S, n) ==
    IF n = 0 THEN S
    ELSE ReachIn(in, S \cup UNION {Consumes(in, x) : x \in S}, n - 1)

\* The catalog is acyclic: no item is among the items its producers need,
\* directly or through other items.
Acyclic(in) ==
    \A i \in DOMAIN in.items :
        in.items[i] \notin ReachIn(in, Consumes(in, in.items[i]), Len(in.items))

\* The price formula of an item of an acyclic catalog, company by company.
RECURSIVE FormulaPrice(_, _)
RECURSIVE FormulaInputs(_, _)
FormulaInputs(in, consumption) ==
    IF consumption = <<>> THEN 0
    ELSE FormulaPrice(in, Head(consumption).id) * Head(consumption).amount
         + FormulaInputs(in, Tail(consumption))

FormulaOf(in, c, id) ==
    LET company == in.companies[c]
        produced == CHOOSE i \in DOMAIN company.production :
                        company.production[i].id = id
    IN  (FormulaInputs(in, company.consumption)
         + (in.price_multiplier * company.complexity * company.n_workers * in.worker)
               \div 4)
        \div company.production[produced].amount

FormulaPrice(in, id) ==
    IF Producers(in, id) = {} THEN 0
    ELSE MinOf({FormulaOf(in, c, id) : c \in Producers(in, id)})

\* The catalog of the test calculate_prices.
CerealFarm ==
    [production |-> <<RecipeItem(1, 3)>>, consumption |-> <<>>,
     complexity |-> 3, n_workers |-> 2]

WheatFactory ==
    [production |-> <<RecipeItem(2, 2)>>, consumption |-> <<RecipeItem(1, 2)>>,
     complexity |-> 10, n_workers |-> 5]

\* C30: for an acyclic catalog calculate_prices returns, with a price for every
\* item of the catalog: the minimum over the companies that produce the item of
\* (the prices of the consumed items times their amounts, plus the multiplier
\* times complexity times workers times the per-worker cost) divided by the
\* company's produced amount, the multiplier scaling the labour term only, and
\* zero for an item no company produces.  With multiplier 1 cereal costs 2 worker
\* units and wheat (2 * price(cereal) + 50 worker units) / 2.
C30_PriceFormula ==
    (op = "calculate_prices" /\ Acyclic(args)) =>
        /\ ~panicked
        /\ DOMAIN ret = {args.items[i] : i \in DOMAIN args.items}
        /\ \A id \in DOMAIN ret : ret[id] = FormulaPrice(args, id)
        /\ (args.companies = <<CerealFarm, WheatFactory>> /\ args.price_multiplier = 4) =>
              /\ ret[1] = 2 * args.worker
              /\ ret[2] = (2 * ret[1] + 50 * args.worker) \div 2

\* calculate_prices has returned the prices of the test's catalog at multiplier 1
\* and a per-worker cost of 10: cereal 20, wheat (2 * 20 + 500) / 2 = 270, and
\* nothing for item 3, which no company produces.
C30_Witness ==
    /\ Returned("calculate_prices")
    /\ args.companies = <<CerealFarm, WheatFactory>>
    /\ args.price_multiplier = 4
    /\ args.worker = 10
    /\ ret[1] = 20
    /\ ret[2] = 270
    /\ ret[3] = 0

\* C31: on a catalog whose recipe graph has a cycle (a company consumes its own
\* product, or two items' producers consume each other's product)
\* calculate_prices still terminates and returns a price for every item.
C31_CyclicTerminates ==
    (op = "calculate_prices" /\ ~Acyclic(args)) =>
        /\ ~panicked
        /\ DOMAIN ret = {args.items[i] : i \in DOMAIN args.items}

\* The candidates make_trades drained for a commodity, in the order it settled
\* them: the potential buffer is empty when a call starts.
Drained(kind) == SortByScore(Candidates(kind, pre[kind]))

\* C32: make_trades never panics: it asks for the soul of a trade target on
\* candidates between two souls only, the seller's capital lookup at settlement
\* finds an entry, and it leaves the potential buffer empty.
C32_NoFatalPrecondition ==
    AfterTrades =>
        /\ ~panicked
        /\ potential = <<>>
        /\ \A kind \in DOMAIN pre :
              \A i \in DOMAIN Drained(kind) : IsSoulSoul(Drained(kind)[i].trade)

\* make_trades drained candidates of a commodity, settled one of them and traded
\* with the external market in the same call.
C32_Witness ==
    /\ AfterTrades
    /\ ~panicked
    /\ \E kind \in DOMAIN pre : Drained(kind) # <<>>
    /\ \E i \in DOMAIN all_trades : IsSoulSoul(all_trades[i])
    /\ \E i \in DOMAIN all_trades : ~IsSoulSoul(all_trades[i])

\* No commodity of the ledgers mk is opted out of external trade.
AllTradeExternally(mk) == \A kind \in DOMAIN mk : ~mk[kind].optout_exttrade

\* C33: a make_trades call that directly follows a make_trades call returns an
\* empty batch and leaves every ledger as it was, when no commodity is opted out
\* of external trade.
C33_SecondCallIdle ==
    [][(op = "make_trades" /\ op' = "make_trades" /\ ~panicked'
        /\ AllTradeExternally(markets))
       => (all_trades' = <<>> /\ markets' = markets)]_vars

\* A second make_trades call has returned: only make_trades follows make_trades
\* in a tick, the call before left a batch with a trade between souls, and this
\* one found a sell order in the book and left the ledgers alone.
C33_Witness ==
    /\ AfterTrades
    /\ AllTradeExternally(pre)
    /\ \E i \in DOMAIN pre_trades : IsSoulSoul(pre_trades[i])
    /\ \E kind \in DOMAIN pre : pre[kind].sell_orders # EmptyMap
    /\ all_trades = <<>>
    /\ markets = pre

\* Every sell order of a commodity offers at most its soul's capital.
SellOrdersBacked(mk, kind) ==
    \A seller \in DOMAIN mk[kind].sell_orders :
        mk[kind].sell_orders[seller].qty <= Capital(mk, seller, kind)

\* C34: if every sell order of a commodity has qty at most its soul's capital
\* when make_trades is invoked, the same holds of every sell order left in that
\* commodity when make_trades returns.
C34_BackedOrdersStayBacked ==
    AfterTrades =>
        \A kind \in DOMAIN pre :
            SellOrdersBacked(pre, kind) => SellOrdersBacked(markets, kind)

\* make_trades was invoked on backed sell orders, settled a trade between souls
\* out of one of them and left that order in the book with goods to offer.
C34_Witness ==
    /\ AfterTrades
    /\ \E kind \in DOMAIN pre :
          /\ SellOrdersBacked(pre, kind)
          /\ \E i \in DOMAIN all_trades :
                /\ IsSoulSoul(all_trades[i])
                /\ all_trades[i].kind = kind
                /\ all_trades[i].seller.id \in DOMAIN markets[kind].sell_orders
                /\ markets[kind].sell_orders[all_trades[i].seller.id].qty > 0

\* The soul has no capital entry in any commodity.
NoCapitalEntry(mk, soul) == \A kind \in DOMAIN mk : soul \notin DOMAIN mk[kind].capital

\* The trade names the soul as buyer or as seller.
Names(t, soul) == t.buyer = Soul(soul) \/ t.seller = Soul(soul)

\* C35: from remove(soul) until the soul is again the subject of a sell,
\* sell_all, buy, buy_until, produce or register call, the soul has no capital
\* entry in any commodity and no make_trades batch names it as buyer or seller.
C35_RemovedStaysOut ==
    \A soul \in removed :
        /\ NoCapitalEntry(markets, soul)
        /\ AfterTrades => \A i \in DOMAIN all_trades : ~Names(all_trades[i], soul)

\* A soul was removed and make_trades has since returned a batch in which the
\* other souls trade.
C35_Witness ==
    /\ AfterTrades
    /\ removed # {}
    /\ all_trades # <<>>

\* The sum of the capital of all souls in a capital map.
RECURSIVE SumCapital(_, _)
SumCapital(capital, souls) ==
    IF souls = <<>> THEN 0
    ELSE capital[Head(souls)] + SumCapital(capital, Tail(souls))

TotalCapital(mk, kind) == SumCapital(mk[kind].capital, KeySeq(DOMAIN mk[kind].capital))

\* The total qty of a sequence of trades.
RECURSIVE SumQty(_)
SumQty(trades) == IF trades = <<>> THEN 0 ELSE Head(trades).qty + SumQty(Tail(trades))

\* The goods of commodity kind the batch bought from, and sold to, ExternalTrade.
Imported(kind) ==
    SumQty(SelectSeq(KindTrades(all_trades, kind), LAMBDA t : t.seller = ExternalTrade))

Exported(kind) ==
    SumQty(SelectSeq(KindTrades(all_trades, kind), LAMBDA t : t.buyer = ExternalTrade))

\* C36: for each commodity the sum of all souls' capital after make_trades is the
\* sum before, plus the total qty of the call's trades bought from ExternalTrade,
\* minus the total qty of its trades sold to ExternalTrade; for an opted-out
\* commodity the sum is unchanged.
C36_GoodsConserved ==
    AfterTrades =>
        \A kind \in DOMAIN pre :
            /\ TotalCapital(markets, kind)
                  = TotalCapital(pre, kind) + Imported(kind) - Exported(kind)
            /\ pre[kind].optout_exttrade =>
                  TotalCapital(markets, kind) = TotalCapital(pre, kind)

\* make_trades settled a trade between souls in the opted-out commodity, whose
\* total stayed, and bought from the external market in the other one, whose
\* total grew.
C36_Witness ==
    /\ AfterTrades
    /\ \E kind \in DOMAIN pre :
          /\ pre[kind].optout_exttrade
          /\ \E i \in TradesOf(kind) : IsSoulSoul(all_trades[i])
          /\ TotalCapital(markets, kind) = TotalCapital(pre, kind)
    /\ \E kind \in DOMAIN pre :
          /\ Imported(kind) > 0
          /\ TotalCapital(markets, kind) > TotalCapital(pre, kind)

\* The place of a trade within its commodity: trades between souls, then the
\* purchases from ExternalTrade, then the sales to ExternalTrade.
Place(t) == IF IsSoulSoul(t) THEN 0 ELSE IF t.seller = ExternalTrade THEN 1 ELSE 2

\* The squared distance between the positions of the two orders a trade between
\* souls matched, as make_trades found them.
MatchDistance(t) ==
    Distance2(pre[t.kind].sell_orders[t.seller.id].pos,
              pre[t.kind].buy_orders[t.buyer.id].pos)

\* C37: the batch is grouped by commodity in ascending ItemID order; within a
\* commodity the trades between souls come first, in non-decreasing order of the
\* squared distance between the matched orders, then the purchases from
\* ExternalTrade, then the sales to ExternalTrade.
C37_BatchOrdering ==
    AfterTrades =>
        \A i, j \in DOMAIN all_trades :
            i < j =>
                LET t == all_trades[i]
                    u == all_trades[j]
                IN  /\ t.kind <= u.kind
                    /\ t.kind = u.kind => Place(t) <= Place(u)
                    /\ (t.kind = u.kind /\ IsSoulSoul(t) /\ IsSoulSoul(u)) =>
                           MatchDistance(t) <= MatchDistance(u)

\* The batch holds a purchase from ExternalTrade in the first commodity and then,
\* in the second, two trades between souls of which the nearer pair, pushed
\* second as a candidate, comes first.
C37_Witness ==
    /\ AfterTrades
    /\ \E i, j, k \in DOMAIN all_trades :
          /\ i < j /\ j < k
          /\ all_trades[i].seller = ExternalTrade
          /\ all_trades[i].kind < all_trades[j].kind
          /\ all_trades[j].kind = all_trades[k].kind
          /\ IsSoulSoul(all_trades[j]) /\ IsSoulSoul(all_trades[k])
          /\ MatchDistance(all_trades[j]) < MatchDistance(all_trades[k])
          /\ all_trades[j].buyer.id > all_trades[k].buyer.id

\* The calls that post an order.
OrderCalls == {"sell", "sell_all", "buy", "buy_until"}

\* Between pre and now nothing changed in a commodity other than kind, and in
\* the books of kind nothing changed for a soul other than soul.
OnlyTouches(soul, kind) ==
    /\ DOMAIN markets = DOMAIN pre
    /\ \A k \in DOMAIN pre \ {kind} : markets[k] = pre[k]
    /\ kind \in DOMAIN pre =>
          /\ SameExcept(markets[kind].sell_orders, pre[kind].sell_orders, soul)
          /\ SameExcept(markets[kind].buy_orders, pre[kind].buy_orders, soul)
          /\ SameExcept(markets[kind].capital, pre[kind].capital, soul)
          /\ markets[kind].ext_value = pre[kind].ext_value
          /\ markets[kind].optout_exttrade = pre[kind].optout_exttrade

\* C38: sell, sell_all, buy and buy_until change no capital entry of any soul in
\* any commodity and create none; produce creates, removes and changes no buy or
\* sell order; each of these calls touches only the named soul in the named
\* commodity.
C38_PostingAndCapitalApart ==
    /\ op \in OrderCalls =>
          /\ OnlyTouches(args.soul, args.kind)
          /\ \A kind \in DOMAIN pre : markets[kind].capital = pre[kind].capital
    /\ op = "produce" =>
          /\ OnlyTouches(args.soul, args.kind)
          /\ \A kind \in DOMAIN pre :
                /\ markets[kind].sell_orders = pre[kind].sell_orders
                /\ markets[kind].buy_orders = pre[kind].buy_orders

\* sell_all has posted the whole capital of a soul that had no sell order, next
\* to the buy order of another soul: the capital map is the one it found, and so
\* is the ledger of the other commodity.
C38_Witness ==
    /\ Returned("sell_all")
    /\ args.kind \in DOMAIN pre
    /\ args.soul \notin DOMAIN pre[args.kind].sell_orders
    /\ args.soul \in DOMAIN markets[args.kind].sell_orders
    /\ markets[args.kind].sell_orders[args.soul].qty = Capital(pre, args.soul, args.kind)
    /\ \E other \in DOMAIN pre[args.kind].buy_orders : other # args.soul
    /\ markets[args.kind].capital = pre[args.kind].capital
    /\ \E kind \in DOMAIN pre \ {args.kind} : markets[kind] = pre[kind]

====
